---- MODULE Spec2Model ----
(***************************************************************************)
(* State-machine model of src/views/sqlPreview.ts (class SqlPreview):      *)
(* the registry of preview panels, the host events each panel subscribes   *)
(* to, the debounce timers, and the asynchronous compile/render cycle.     *)
(*                                                                         *)
(* One action models one host callback run to completion: the synchronous  *)
(* handler followed by the promise reactions (microtasks) it scheduled.    *)
(* A cycle stays in flight across actions only while it awaits             *)
(* shiki.getHighlighter; configure() stays suspended only while it awaits  *)
(* workspace.fs.readFile.                                                  *)
(***************************************************************************)
EXTENDS Integers, Sequences, FiniteSets, TLC

---------------------------------------------------------------------------
(* Bounds of the model *)

MaxPanels == 2
MaxInFlight == 1
MaxPending == 2
MaxOverlap == 2

---------------------------------------------------------------------------
(* Values *)

Undefined == "undefined"
Null == "null"
NoHtml == <<>>
NoTheme == <<>>
NoPanel == 0

Uri(scheme, base, ext) == [scheme |-> scheme, base |-> base, ext |-> ext]
NoUri == Uri("", "", "")

FsPath(uri) == [base |-> uri.base, ext |-> uri.ext]
NoPath == [base |-> "", ext |-> ""]

\* documentUri.with({scheme: 'prql'})
ViewUri(documentUri) == [documentUri EXCEPT !.scheme = "prql"]

\* viewUri.toString(true): the registry key
ViewKey(viewUri) == <<viewUri.scheme, viewUri.base, viewUri.ext>>

EndsWithPrql(path) == path.ext = ".prql"

\* editor.document.languageId of the document at a path
LanguageId(path) == IF path.ext = ".prql" THEN "prql" ELSE "plaintext"

\* JavaScript truthiness of an optional string
Truthy(s) == s # Undefined /\ s # ""

---------------------------------------------------------------------------
(* The compiler: compile(prqlCode) returns the SQL text or an array of     *)
(* diagnostics, each with a reason and an optional display string.         *)

Diag(display, reason) == [display |-> display, reason |-> reason]
SqlText(sql) == [isArray |-> FALSE, sql |-> sql, diags |-> <<>>]
Diagnostics(diags) == [isArray |-> TRUE, sql |-> Undefined, diags |-> diags]

Texts == {"", "from a", "from b", "from"}

compile(prqlCode) ==
  CASE prqlCode = "from a" -> SqlText("SELECT * FROM a")
    [] prqlCode = "from b" -> SqlText("SELECT * FROM b")
    [] prqlCode = "from" -> Diagnostics(<<Diag("Error: D1", "R1"), Diag("Error: D2", "R2")>>)
    [] OTHER -> Diagnostics(<<Diag(Undefined, "R0")>>)

---------------------------------------------------------------------------
(* Theme names are sequences of characters, so that the normalisation of   *)
(* themeName is computed and not assumed.                                  *)

Nord == <<"n", "o", "r", "d">>
MinLight == <<"m", "i", "n", "-", "l", "i", "g", "h", "t">>
CssVariables == <<"c", "s", "s", "-", "v", "a", "r", "i", "a", "b", "l", "e", "s">>
ConfigMinLight == <<"M", "i", "n", " ", "L", "i", "g", "h", "t">>
ConfigNordTheme == <<"N", "o", "r", "d", " ", "T", "h", "e", "m", "e">>
ConfigAbyss == <<"A", "b", "y", "s", "s">>

\* shiki.BUNDLED_THEMES, the part of it the model uses
BUNDLED_THEMES == {Nord, MinLight, CssVariables}

ToLowerChar(c) ==
  CASE c = "A" -> "a" [] c = "L" -> "l" [] c = "M" -> "m"
    [] c = "N" -> "n" [] c = "T" -> "t" [] OTHER -> c

\* String.prototype.toLowerCase
ToLowerCase(s) == [i \in 1..Len(s) |-> ToLowerChar(s[i])]

IsSpace(c) == c = " "

StartsWithAt(s, i, pat) ==
  /\ i + Len(pat) - 1 <= Len(s)
  /\ \A k \in 1..Len(pat) : s[i + k - 1] = pat[k]

\* String.prototype.replace(pat, ''): the first occurrence only
RemoveFirst(s, pat) ==
  LET hits == {i \in 1..Len(s) : StartsWithAt(s, i, pat)}
  IN IF hits = {} THEN s
     ELSE LET i == CHOOSE h \in hits : \A g \in hits : h <= g
          IN SubSeq(s, 1, i - 1) \o SubSeq(s, i + Len(pat), Len(s))

RECURSIVE SpacesToHyphen(_)
\* String.prototype.replace(/\s+/g, '-'): every run of whitespace
SpacesToHyphen(s) ==
  IF s = <<>> THEN <<>>
  ELSE IF IsSpace(Head(s))
       THEN IF Len(s) > 1 /\ IsSpace(s[2])
            THEN SpacesToHyphen(Tail(s))
            ELSE <<"-">> \o SpacesToHyphen(Tail(s))
       ELSE <<Head(s)>> \o SpacesToHyphen(Tail(s))

\* themeName without the toLowerCase of line 426
themeNameNoLowerCase(colorTheme) ==
  IF colorTheme \in BUNDLED_THEMES THEN colorTheme
  ELSE LET normalized ==
             SpacesToHyphen(RemoveFirst(colorTheme, <<"t", "h", "e", "m", "e">>))
       IN IF normalized \in BUNDLED_THEMES THEN normalized ELSE CssVariables

\* get themeName(), given workbench.colorTheme
themeName(colorTheme) ==
  IF colorTheme \in BUNDLED_THEMES THEN colorTheme
  ELSE LET normalized ==
             SpacesToHyphen(RemoveFirst(ToLowerCase(colorTheme), <<"t", "h", "e", "m", "e">>))
       IN IF normalized \in BUNDLED_THEMES THEN normalized ELSE CssVariables

\* highlighter.codeToHtml(sqlCode, {lang: 'sql'}) of a highlighter built for a theme
codeToHtml(theme, sqlCode) == <<theme, sqlCode>>

---------------------------------------------------------------------------
(* CompilationResult and the messages posted to the webview *)

Result(status, sql, sqlHtml, message, lastSqlHtml) ==
  [status |-> status, sql |-> sql, sqlHtml |-> sqlHtml,
   message |-> message, lastSqlHtml |-> lastSqlHtml]
NoResult == Result("none", Undefined, NoHtml, Undefined, NoHtml)

\* A message posted to the webview of panel `to`. The field prqlCode is not part
\* of the posted object: it records the text the render cycle compiled.
Msg(to, command, documentUrl, result, prqlCode) ==
  [to |-> to, command |-> command, documentUrl |-> documentUrl, result |-> result,
   prqlCode |-> prqlCode]

\* a ?? b
Coalesce(a, b) == IF a = Undefined \/ a = Null THEN b ELSE a

\* the result with the message chosen by || in place of ??
ErrorResultOr(sqlCode, lastSqlHtml) ==
  Result("error", Undefined, NoHtml,
         IF Truthy(sqlCode.diags[1].display) THEN sqlCode.diags[1].display
         ELSE sqlCode.diags[1].reason, lastSqlHtml)

\* compilePrql, lines 382-391: the result built from an array of diagnostics
ErrorResult(sqlCode, lastSqlHtml) ==
  Result("error", Undefined, NoHtml,
         Coalesce(sqlCode.diags[1].display, sqlCode.diags[1].reason), lastSqlHtml)

\* compilePrql, lines 394-397: the result built from SQL text and a highlighter
OkResult(sqlCode, theme) ==
  Result("ok", sqlCode.sql, codeToHtml(theme, sqlCode.sql), Undefined, NoHtml)

---------------------------------------------------------------------------
(* State *)

VARIABLES
  panels,        \* every SqlPreview instance constructed so far, by instance number
  views,         \* SqlPreview._views: registry key -> instance number, or NoPanel
  currentView,   \* SqlPreview.currentView: instance number, or NoPanel
  ctxActive,     \* context key ViewContext.SqlPreviewActive
  ctxLastDoc,    \* context key ViewContext.LastActivePrqlDocumentUri
  wsSql,         \* context.workspaceState key 'prql.sql'
  cycles,        \* render cycles awaiting shiki.getHighlighter, in start order
  docs,          \* host: text of the open text document at a path, or Closed
  activeEditor,  \* host: path of window.activeTextEditor's document, or NoPath
  disk,          \* host: file content at a path, or Absent
  colorTheme,    \* host: configuration workbench.colorTheme
  last,          \* the last step: its handler, the messages it posted, the panel it
                 \* revealed, the instance it constructed
  compilerOutput, \* compilePrql on its own: the value compile() returned
  compilePrqlResult \* compilePrql on its own: the result built from it, or NoResult

vars == <<panels, views, currentView, ctxActive, ctxLastDoc, wsSql, cycles,
          docs, activeEditor, disk, colorTheme, last, compilerOutput, compilePrqlResult>>

Closed == "<closed>"
Absent == "<absent>"

\* A new SqlPreview instance and the host state of its WebviewPanel
NewPanel(documentUri, active) ==
  [uri |-> documentUri,
   alive |-> TRUE,            \* the WebviewPanel is not disposed
   subs |-> FALSE,            \* the subscriptions in _disposables are live
   visible |-> TRUE,          \* _webviewPanel.visible
   active |-> active,         \* _webviewPanel.active
   configured |-> FALSE,      \* webview.html set and onDidReceiveMessage registered
   loading |-> FALSE,         \* configure() is awaiting workspace.fs.readFile
   highlighter |-> NoTheme,   \* _highlighter: the theme it was built for
   lastSqlHtml |-> NoHtml,    \* _lastSqlHtml
   tOpen |-> 0,               \* pending timeouts of the onDidOpenTextDocument debounce
   tChange |-> 0]             \* pending timeouts of the onDidChangeTextDocument debounce

PanelIds == 1..Len(panels)

\* The program and host state a handler works on, with what the step has
\* posted (out), the panel it asked the host to reveal (revealed), the instance
\* it constructed (created) and its promise reactions not yet run (micro).
Cur ==
  [panels |-> panels, views |-> views, currentView |-> currentView,
   ctxActive |-> ctxActive, ctxLastDoc |-> ctxLastDoc, wsSql |-> wsSql,
   cycles |-> cycles, docs |-> docs, activeEditor |-> activeEditor,
   disk |-> disk, colorTheme |-> colorTheme,
   out |-> <<>>, micro |-> <<>>, revealed |-> NoPanel, created |-> NoPanel]

Label(op, S) == [op |-> op, out |-> S.out, revealed |-> S.revealed, created |-> S.created]

\* The step's result becomes the next state; a step that would leave more than
\* MaxOverlap cycles in flight is outside the model (MaxInFlight in the
\* specifications that say so).
Commit(op, S) ==
  /\ Len(S.cycles) <= MaxOverlap
  /\ panels' = S.panels
  /\ views' = S.views
  /\ currentView' = S.currentView
  /\ ctxActive' = S.ctxActive
  /\ ctxLastDoc' = S.ctxLastDoc
  /\ wsSql' = S.wsSql
  /\ cycles' = S.cycles
  /\ docs' = S.docs
  /\ activeEditor' = S.activeEditor
  /\ disk' = S.disk
  /\ colorTheme' = S.colorTheme
  /\ last' = Label(op, S)
  /\ UNCHANGED <<compilerOutput, compilePrqlResult>>

---------------------------------------------------------------------------
(* Methods of SqlPreview, as functions from state to state *)

\* webview.postMessage(m) on a panel whose webview is live
postMessage(S, m) == [S EXCEPT !.out = Append(@, m)]

\* refresh(): an async method; on a disposed panel the webviewPanel.webview
\* getter throws and the returned promise rejects, with no effect
refresh(S, p) ==
  IF ~S.panels[p].alive THEN S
  ELSE postMessage(S, Msg(p, "refresh", FsPath(S.panels[p].uri), NoResult, Undefined))

resetSqlPreviewContext(S, p) ==
  [S EXCEPT !.ctxActive = TRUE, !.ctxLastDoc = S.panels[p].uri]

clearSqlPreviewContext(S) ==
  [S EXCEPT !.ctxActive = FALSE, !.wsSql = Undefined]

\* getHighlighter(): the cached instance, or a new shiki.getHighlighter request
\* for the current themeName; compilePrql runs up to that await synchronously.
compilePrql(S, p, prqlCode, lastSqlHtml) ==
  LET sqlCode == compile(prqlCode)
      me == S.panels[p]
  IN IF sqlCode.isArray
     THEN [S EXCEPT !.micro = Append(@, [panel |-> p, prqlCode |-> prqlCode,
                                         result |-> ErrorResult(sqlCode, lastSqlHtml)])]
     ELSE IF me.highlighter # NoTheme
          THEN [S EXCEPT !.micro = Append(@, [panel |-> p, prqlCode |-> prqlCode,
                                              result |-> OkResult(sqlCode, me.highlighter)])]
          ELSE [S EXCEPT !.cycles = Append(@, [panel |-> p, prqlCode |-> prqlCode,
                                               theme |-> themeName(S.colorTheme)])]

\* processPrql up to the promise: starts one render cycle
processPrql(S, p, prqlCode) ==
  compilePrql(S, p, prqlCode, S.panels[p].lastSqlHtml)

\* the reaction without the assignment to _lastSqlHtml of line 354
processPrqlThenNoSave(S, p, prqlCode, compilationResult) ==
  IF ~S.panels[p].alive THEN S
  ELSE LET S2 == postMessage(S, Msg(p, "update", NoPath, compilationResult, prqlCode))
           S3 == resetSqlPreviewContext(S2, p)
       IN [S3 EXCEPT !.wsSql = compilationResult.sql]

\* the reaction with the assignment to _lastSqlHtml made for every status
processPrqlThenAlwaysSave(S, p, prqlCode, compilationResult) ==
  LET S1 == [S EXCEPT !.panels[p].lastSqlHtml = compilationResult.sqlHtml]
  IN IF ~S1.panels[p].alive THEN S1
     ELSE LET S2 == postMessage(S1, Msg(p, "update", NoPath, compilationResult, prqlCode))
              S3 == resetSqlPreviewContext(S2, p)
          IN [S3 EXCEPT !.wsSql = compilationResult.sql]

\* the reaction with lines 364-365 moved before the postMessage of line 358
processPrqlThenResetFirst(S, p, prqlCode, compilationResult) ==
  LET S1 == IF compilationResult.status = "ok"
            THEN [S EXCEPT !.panels[p].lastSqlHtml = compilationResult.sqlHtml]
            ELSE S
      S2 == [resetSqlPreviewContext(S1, p) EXCEPT !.wsSql = compilationResult.sql]
  IN IF ~S2.panels[p].alive THEN S2
     ELSE postMessage(S2, Msg(p, "update", NoPath, compilationResult, prqlCode))

\* the reaction registered by processPrql with .then; on a disposed panel the
\* webviewPanel.webview getter throws after _lastSqlHtml is written
processPrqlThen(S, p, prqlCode, compilationResult) ==
  LET S1 == IF compilationResult.status = "ok"
            THEN [S EXCEPT !.panels[p].lastSqlHtml = compilationResult.sqlHtml]
            ELSE S
  IN IF ~S1.panels[p].alive THEN S1
     ELSE LET S2 == postMessage(S1, Msg(p, "update", NoPath, compilationResult, prqlCode))
              S3 == resetSqlPreviewContext(S2, p)
          IN [S3 EXCEPT !.wsSql = compilationResult.sql]

RECURSIVE RunMicrotasks(_)
\* the promise reactions scheduled by the handler, in order, after it returns
RunMicrotasks(S) ==
  IF S.micro = <<>> THEN S
  ELSE LET job == Head(S.micro)
       IN RunMicrotasks(processPrqlThen([S EXCEPT !.micro = Tail(@)],
                                        job.panel, job.prqlCode, job.result))

\* update(context, prqlCode); reading webviewPanel.visible throws on a
\* disposed panel
update(S, p, prqlCode) ==
  LET me == S.panels[p]
      editor == S.activeEditor
  IN IF ~me.alive THEN S
     ELSE LET S1 == IF /\ me.visible
                       /\ editor # NoPath
                       /\ LanguageId(editor) = "prql"
                       /\ editor = FsPath(me.uri)
                    THEN processPrql(S, p, S.docs[editor])
                    ELSE IF Truthy(prqlCode) THEN processPrql(S, p, prqlCode)
                    ELSE S
          IN IF ~me.visible \/ ~me.active THEN clearSqlPreviewContext(S1) ELSE S1

\* fs.existsSync(fsPath)
existsSync(S, fsPath) == fsPath \in DOMAIN S.disk /\ S.disk[fsPath] # Absent

\* getHtmlTemplate throws when readFileSync fails (templateOk = FALSE); configure
\* is async, so the throw rejects its promise and stops it there. Otherwise it
\* runs up to the await of workspace.fs.readFile, or to its end.
configure(S, p, templateOk) ==
  IF ~templateOk THEN S
  ELSE LET S1 == [S EXCEPT !.panels[p].configured = TRUE]
           fsPath == FsPath(S.panels[p].uri)
       IN IF existsSync(S1, fsPath) /\ EndsWithPrql(fsPath)
          THEN [S1 EXCEPT !.panels[p].loading = TRUE]
          ELSE update(refresh(S1, p), p, Undefined)

\* constructor without the _views.set of line 144
constructorNoRegister(S, webviewPanel, documentUri, templateOk) ==
  LET p == Len(S.panels) + 1
      S0 == [S EXCEPT !.panels = Append(@, NewPanel(documentUri, webviewPanel.active)),
                      !.created = p]
      S1 == configure(S0, p, templateOk)
  IN [S1 EXCEPT !.panels[p].subs = TRUE]

\* new SqlPreview(context, webviewPanel, documentUri)
constructor(S, webviewPanel, documentUri, templateOk) ==
  LET p == Len(S.panels) + 1
      S0 == [S EXCEPT !.panels = Append(@, NewPanel(documentUri, webviewPanel.active)),
                      !.created = p]
      S1 == configure(S0, p, templateOk)
      S2 == [S1 EXCEPT !.views[ViewKey(ViewUri(documentUri))] = p]
  IN [S2 EXCEPT !.panels[p].subs = TRUE]

\* reveal(): webviewPanel.reveal, then resetSqlPreviewContext
reveal(S, p) == resetSqlPreviewContext([S EXCEPT !.revealed = p], p)

\* SqlPreview.render(context, documentUri, webviewPanel); revealing a disposed
\* panel throws out of render
render(S, documentUri, webviewPanel, templateOk) ==
  LET viewUri == ViewUri(documentUri)
      sqlPreview == S.views[ViewKey(viewUri)]
      tail(T) == [T EXCEPT !.ctxActive = TRUE, !.ctxLastDoc = documentUri]
  IN IF sqlPreview # NoPanel
     THEN IF ~S.panels[sqlPreview].alive THEN S
          ELSE tail([reveal(S, sqlPreview) EXCEPT !.currentView = sqlPreview])
     ELSE LET S1 == constructor(S, webviewPanel, documentUri, templateOk)
          IN tail([S1 EXCEPT !.currentView = S1.created])

\* dispose without the _views.delete of line 227
disposeKeepsEntry(S, p) ==
  clearSqlPreviewContext([S EXCEPT !.currentView = NoPanel, !.panels[p].subs = FALSE])

\* dispose without the assignment to currentView of line 226
disposeKeepsCurrentView(S, p) ==
  LET S1 == [S EXCEPT !.views[ViewKey(ViewUri(S.panels[p].uri))] = NoPanel,
                      !.panels[p].subs = FALSE]
  IN clearSqlPreviewContext(S1)

\* dispose(context)
dispose(S, p) ==
  LET S1 == [S EXCEPT !.currentView = NoPanel,
                      !.views[ViewKey(ViewUri(S.panels[p].uri))] = NoPanel,
                      !.panels[p].subs = FALSE]
  IN clearSqlPreviewContext(S1)

\* the closure without the clearTimeout of line 215
debounceNoClear(pending) == pending + 1

\* the closure returned by debounce(fn, 10): clearTimeout(timer), then setTimeout;
\* the value is the number of timeouts pending afterwards
debounce(pending) == 1

\* the onDidChangeViewState handler
onDidChangeViewState(S, p) ==
  IF S.panels[p].active
  THEN [S EXCEPT !.ctxActive = TRUE, !.ctxLastDoc = S.panels[p].uri, !.currentView = p]
  ELSE [S EXCEPT !.ctxActive = FALSE, !.currentView = NoPanel]

\* the handler without the condition of line 179
onDidChangeActiveTextEditorAnyEditor(S, p) ==
  update(clearSqlPreviewContext([S EXCEPT !.panels[p].lastSqlHtml = NoHtml]), p, Undefined)

\* the onDidChangeActiveTextEditor handler of one panel
onDidChangeActiveTextEditor(S, p) ==
  IF S.activeEditor # NoPath /\ S.activeEditor = FsPath(S.panels[p].uri)
  THEN update(clearSqlPreviewContext([S EXCEPT !.panels[p].lastSqlHtml = NoHtml]), p, Undefined)
  ELSE S

\* the onDidChangeActiveColorTheme handler of one panel; on a disposed panel
\* the webviewPanel.webview getter throws after the two fields are cleared
onDidChangeActiveColorTheme(S, p) ==
  LET S1 == [S EXCEPT !.panels[p].highlighter = NoTheme, !.panels[p].lastSqlHtml = NoHtml]
  IN IF ~S1.panels[p].alive THEN S1
     ELSE postMessage(S1, Msg(p, "changeTheme", NoPath, NoResult, Undefined))

\* the onDidReceiveMessage handler
onDidReceiveMessage(S, p, command) ==
  IF command = "refresh" THEN refresh(S, p) ELSE S

RECURSIVE FireActiveTextEditor(_, _)
\* window.onDidChangeActiveTextEditor fires its live listeners in subscription order
FireActiveTextEditor(S, i) ==
  IF i > Len(S.panels) THEN S
  ELSE FireActiveTextEditor(IF S.panels[i].subs THEN onDidChangeActiveTextEditor(S, i) ELSE S, i + 1)

RECURSIVE FireColorTheme(_, _)
\* window.onDidChangeActiveColorTheme fires its live listeners in subscription order
FireColorTheme(S, i) ==
  IF i > Len(S.panels) THEN S
  ELSE FireColorTheme(IF S.panels[i].subs THEN onDidChangeActiveColorTheme(S, i) ELSE S, i + 1)

\* workspace.onDidOpenTextDocument / onDidChangeTextDocument fire the debounced
\* closure of every panel whose subscription is live
FireTextDocument(S, kind) ==
  [S EXCEPT !.panels = [i \in 1..Len(S.panels) |->
     IF ~S.panels[i].subs THEN S.panels[i]
     ELSE IF kind = "open" THEN [S.panels[i] EXCEPT !.tOpen = debounce(@)]
     ELSE [S.panels[i] EXCEPT !.tChange = debounce(@)]]]

---------------------------------------------------------------------------
(* Actions: one per host callback *)

\* the sqlPreview command, or the panel serializer, calls SqlPreview.render
Render(documentUri, webviewPanel, templateOk) ==
  LET S == RunMicrotasks(render(Cur, documentUri, webviewPanel, templateOk))
  IN /\ Len(S.panels) <= MaxPanels
     /\ Commit("render", S)

\* the host changes a panel's view state and fires onDidChangeViewState; it
\* deactivates one panel before it activates another
ViewStateChange(p, visible, active) ==
  /\ panels[p].alive
  /\ <<visible, active>> # <<panels[p].visible, panels[p].active>>
  /\ active => visible
  /\ active => \A q \in PanelIds \ {p} : ~(panels[q].alive /\ panels[q].active)
  /\ LET S0 == [Cur EXCEPT !.panels[p].visible = visible, !.panels[p].active = active]
     IN Commit("viewState", onDidChangeViewState(S0, p))

\* the user closes a panel: the host disposes it and fires onDidDispose
PanelClose(p) ==
  /\ panels[p].alive
  /\ LET S0 == [Cur EXCEPT !.panels[p].alive = FALSE,
                           !.panels[p].visible = FALSE,
                           !.panels[p].active = FALSE]
     IN Commit("dispose", dispose(S0, p))

\* a text document is opened: onDidOpenTextDocument
OpenDocument(f) ==
  /\ docs[f] = Closed
  /\ \A p \in PanelIds : panels[p].tOpen < MaxPending
  /\ LET S0 == [Cur EXCEPT !.docs[f] = IF disk[f] = Absent THEN "" ELSE disk[f]]
     IN Commit("open", FireTextDocument(S0, "open"))

\* a text document that is not in the active editor is closed
CloseDocument(f) ==
  /\ docs[f] # Closed
  /\ activeEditor # f
  /\ Commit("close", [Cur EXCEPT !.docs[f] = Closed])

\* the text of an open document changes: onDidChangeTextDocument
ChangeDocument(f, text) ==
  /\ docs[f] # Closed
  /\ docs[f] # text
  /\ \A p \in PanelIds : panels[p].tChange < MaxPending
  /\ Commit("change", FireTextDocument([Cur EXCEPT !.docs[f] = text], "change"))

\* the active text editor changes: onDidChangeActiveTextEditor
ChangeActiveTextEditor(f) ==
  /\ f # activeEditor
  /\ f # NoPath => docs[f] # Closed
  /\ Commit("activeEditor", RunMicrotasks(FireActiveTextEditor([Cur EXCEPT !.activeEditor = f], 1)))

\* a debounce timeout of a panel expires: update(context)
TimerFire(p, kind) ==
  /\ IF kind = "open" THEN panels[p].tOpen > 0 ELSE panels[p].tChange > 0
  /\ LET S0 == IF kind = "open"
               THEN [Cur EXCEPT !.panels[p].tOpen = @ - 1]
               ELSE [Cur EXCEPT !.panels[p].tChange = @ - 1]
     IN Commit(IF kind = "open" THEN "timerOpen" ELSE "timerChange",
               RunMicrotasks(update(S0, p, Undefined)))

\* the color theme changes: onDidChangeActiveColorTheme
ChangeColorTheme(theme) ==
  /\ theme # colorTheme
  /\ Commit("theme", FireColorTheme([Cur EXCEPT !.colorTheme = theme], 1))

\* shiki.getHighlighter resolves for the i-th cycle in flight: getHighlighter
\* caches the instance, compilePrql renders the HTML, the reaction runs
HighlighterReady(i) ==
  /\ i \in 1..Len(cycles)
  /\ LET c == cycles[i]
         S0 == [Cur EXCEPT !.cycles = SubSeq(@, 1, i - 1) \o SubSeq(@, i + 1, Len(@)),
                           !.panels[c.panel].highlighter = c.theme]
     IN Commit("cycleDone", processPrqlThen(S0, c.panel, c.prqlCode,
                                            OkResult(compile(c.prqlCode), c.theme)))

\* workspace.fs.readFile resolves: configure continues with the decoded text
ReadFileDone(p) ==
  /\ panels[p].loading
  /\ LET S0 == [Cur EXCEPT !.panels[p].loading = FALSE]
         prqlCode == disk[FsPath(panels[p].uri)]
     IN Commit("configured", RunMicrotasks(update(refresh(S0, p), p, prqlCode)))

\* the webview sends a message: onDidReceiveMessage
WebviewMessage(p, command) ==
  /\ panels[p].subs
  /\ panels[p].configured
  /\ Commit("message", onDidReceiveMessage(Cur, p, command))

---------------------------------------------------------------------------
(* The class from an empty registry: the lifecycle of panels over two       *)
(* documents, document a saved, open and in the active editor.             *)

UriA == Uri("file", "a", ".prql")
DocUris == {UriA, Uri("untitled", "a", ".prql"), Uri("file", "b", ".prql")}
Paths == {FsPath(u) : u \in DocUris}
ViewKeys == {ViewKey(ViewUri(u)) : u \in DocUris}
ColorThemes == {Nord, ConfigMinLight}
\* the optional webviewPanel argument of render: none (one is created, active),
\* or a restored panel, active or not
WebviewPanels == {[given |-> FALSE, active |-> TRUE],
                  [given |-> TRUE, active |-> TRUE],
                  [given |-> TRUE, active |-> FALSE]}
Commands == {"refresh", "other"}
NoLabel == [op |-> "init", out |-> <<>>, revealed |-> NoPanel, created |-> NoPanel]

Init ==
  /\ panels = <<>>
  /\ views = [k \in ViewKeys |-> NoPanel]
  /\ currentView = NoPanel
  /\ ctxActive = FALSE
  /\ ctxLastDoc = NoUri
  /\ wsSql = Undefined
  /\ cycles = <<>>
  /\ docs = [f \in Paths |-> IF f = FsPath(UriA) THEN "from a" ELSE Closed]
  /\ activeEditor = FsPath(UriA)
  /\ disk = [f \in Paths |-> IF f = FsPath(UriA) THEN "from a" ELSE Absent]
  /\ colorTheme = Nord
  /\ last = NoLabel
  /\ compilerOutput = SqlText("")
  /\ compilePrqlResult = NoResult

\* the step leaves at most MaxInFlight cycles in flight
InFlightBound == Len(cycles') <= MaxInFlight

Next ==
  \/ \E u \in DocUris, w \in WebviewPanels, ok \in BOOLEAN :
       Render(u, w, ok) /\ InFlightBound
  \/ \E p \in PanelIds, v \in BOOLEAN, a \in BOOLEAN : ViewStateChange(p, v, a)
  \/ \E p \in PanelIds : PanelClose(p)
  \/ \E i \in 1..MaxInFlight : HighlighterReady(i)
  \/ \E p \in PanelIds : ReadFileDone(p) /\ InFlightBound

Spec == Init /\ [][Next]_vars

---------------------------------------------------------------------------
(* One panel of document a: every event it subscribes to *)

\* before the preview of document a is requested: the file is on disk or not,
\* the document is closed and no editor is active
InitPanel ==
  /\ panels = <<>>
  /\ views = [k \in {ViewKey(ViewUri(UriA))} |-> NoPanel]
  /\ currentView = NoPanel
  /\ ctxActive = FALSE
  /\ ctxLastDoc = NoUri
  /\ wsSql = Undefined
  /\ cycles = <<>>
  /\ docs = [f \in {FsPath(UriA)} |-> Closed]
  /\ activeEditor = NoPath
  /\ disk \in [{FsPath(UriA)} -> {Absent, "from a"}]
  /\ colorTheme = Nord
  /\ last = NoLabel
  /\ compilerOutput = SqlText("")
  /\ compilePrqlResult = NoResult

\* the preview of document a is requested once
RenderPanel(webviewPanel) ==
  /\ panels = <<>>
  /\ Render(UriA, webviewPanel, TRUE)

NextPanel ==
  \/ \E w \in WebviewPanels : RenderPanel(w) /\ InFlightBound
  \/ \E p \in PanelIds, v \in BOOLEAN, a \in BOOLEAN : ViewStateChange(p, v, a)
  \/ \E p \in PanelIds : PanelClose(p)
  \/ OpenDocument(FsPath(UriA))
  \/ CloseDocument(FsPath(UriA))
  \/ \E text \in Texts : ChangeDocument(FsPath(UriA), text)
  \/ \E f \in {FsPath(UriA), NoPath} : ChangeActiveTextEditor(f) /\ InFlightBound
  \/ \E p \in PanelIds, kind \in {"open", "change"} : TimerFire(p, kind) /\ InFlightBound
  \/ \E theme \in ColorThemes : ChangeColorTheme(theme)
  \/ \E i \in 1..MaxInFlight : HighlighterReady(i)
  \/ \E p \in PanelIds : ReadFileDone(p) /\ InFlightBound
  \/ \E p \in PanelIds, command \in Commands : WebviewMessage(p, command)

SpecPanel == InitPanel /\ [][NextPanel]_vars

---------------------------------------------------------------------------
(* One panel of document a, which is open in the active editor and is not  *)
(* edited, while another document b is opened, edited and closed; cycles   *)
(* may overlap.                                                            *)

UriB == Uri("file", "b", ".prql")

InitOther ==
  /\ panels = <<>>
  /\ views = [k \in {ViewKey(ViewUri(UriA))} |-> NoPanel]
  /\ currentView = NoPanel
  /\ ctxActive = FALSE
  /\ ctxLastDoc = NoUri
  /\ wsSql = Undefined
  /\ cycles = <<>>
  /\ docs = [f \in {FsPath(UriA), FsPath(UriB)} |->
               IF f = FsPath(UriA) THEN "from a" ELSE Closed]
  /\ activeEditor = FsPath(UriA)
  /\ disk \in [{FsPath(UriA), FsPath(UriB)} -> {Absent, "from a"}]
  /\ colorTheme = Nord
  /\ last = NoLabel
  /\ compilerOutput = SqlText("")
  /\ compilePrqlResult = NoResult

NextOther ==
  \/ \E w \in WebviewPanels : RenderPanel(w)
  \/ \E p \in PanelIds, v \in BOOLEAN, a \in BOOLEAN : ViewStateChange(p, v, a)
  \/ \E p \in PanelIds : PanelClose(p)
  \/ OpenDocument(FsPath(UriB))
  \/ CloseDocument(FsPath(UriB))
  \/ \E text \in Texts : ChangeDocument(FsPath(UriB), text)
  \/ \E p \in PanelIds, kind \in {"open", "change"} : TimerFire(p, kind)
  \/ \E i \in 1..MaxOverlap : HighlighterReady(i)
  \/ \E p \in PanelIds : ReadFileDone(p)

SpecOther == InitOther /\ [][NextOther]_vars

---------------------------------------------------------------------------
(* compilePrql on its own, over the values compile() can return *)

MaxDiags == 2

Displays == {Undefined, Null, "", "Error: D1", "Error: D2"}
Reasons == {"R1", "R2"}
DiagValues == {Diag(d, r) : d \in Displays, r \in Reasons}
DiagLists == UNION {[1..n -> DiagValues] : n \in 1..MaxDiags}
CompilerOutputs == {Diagnostics(ds) : ds \in DiagLists} \cup {SqlText("SELECT * FROM a")}

InitCompile ==
  /\ panels = <<>>
  /\ views = [k \in ViewKeys |-> NoPanel]
  /\ currentView = NoPanel
  /\ ctxActive = FALSE
  /\ ctxLastDoc = NoUri
  /\ wsSql = Undefined
  /\ cycles = <<>>
  /\ docs = [f \in Paths |-> Closed]
  /\ activeEditor = NoPath
  /\ disk = [f \in Paths |-> Absent]
  /\ colorTheme = Nord
  /\ last = NoLabel
  /\ compilerOutput \in CompilerOutputs
  /\ compilePrqlResult = NoResult

\* compilePrql with a highlighter at hand, lines 381-397
CompilePrqlCall ==
  /\ compilePrqlResult = NoResult
  /\ compilePrqlResult' = IF compilerOutput.isArray THEN ErrorResult(compilerOutput, NoHtml)
                          ELSE OkResult(compilerOutput, themeName(colorTheme))
  /\ UNCHANGED <<panels, views, currentView, ctxActive, ctxLastDoc, wsSql, cycles,
                 docs, activeEditor, disk, colorTheme, last, compilerOutput>>

NextCompile == CompilePrqlCall

SpecCompile == InitCompile /\ [][NextCompile]_vars

---------------------------------------------------------------------------
(* themeName on its own, over configured theme names made of a few words; *)
(* compilePrql asks for the highlighter of themeName.                      *)

MaxThemeWords == 2

ThemeWords ==
  {Nord, <<"N", "o", "r", "d">>, MinLight, ConfigMinLight,
   <<"M", "i", "n", " ", " ", "L", "i", "g", "h", "t">>,
   ConfigNordTheme, <<"t", "h", "e", "m", "e">>, <<"T", "h", "e", "m", "e">>,
   <<" ">>, ConfigAbyss, CssVariables}

RECURSIVE Concat(_)
Concat(words) == IF words = <<>> THEN <<>> ELSE Head(words) \o Concat(Tail(words))

\* the values of the setting workbench.colorTheme
ThemeInputs == {Concat(ws) : ws \in UNION {[1..n -> ThemeWords] : n \in 0..MaxThemeWords}}

InitTheme ==
  /\ panels = <<>>
  /\ views = [k \in ViewKeys |-> NoPanel]
  /\ currentView = NoPanel
  /\ ctxActive = FALSE
  /\ ctxLastDoc = NoUri
  /\ wsSql = Undefined
  /\ cycles = <<>>
  /\ docs = [f \in Paths |-> Closed]
  /\ activeEditor = NoPath
  /\ disk = [f \in Paths |-> Absent]
  /\ colorTheme \in ThemeInputs
  /\ last = NoLabel
  /\ compilerOutput = SqlText("SELECT * FROM a")
  /\ compilePrqlResult = NoResult

NextTheme == CompilePrqlCall

SpecTheme == InitTheme /\ [][NextTheme]_vars

---------------------------------------------------------------------------
(* Claims about the registry (specification Spec) *)

KeyOf(p) == ViewKey(ViewUri(panels[p].uri))
LivePanels(k) == {p \in PanelIds : panels[p].alive /\ KeyOf(p) = k}
DisposedPanels(k) == {p \in PanelIds : ~panels[p].alive /\ KeyOf(p) = k}

\* the document a render step was called for: render ends by setting the
\* context key LastActivePrqlDocumentUri to it
RenderedKey == ViewKey(ViewUri(ctxLastDoc))

\* C1: at any time at most one panel that is constructed and not disposed exists
\* per document identifier (the URI with scheme 'prql'), and a render that
\* constructs no instance has revealed the live panel of its document and made
\* it the current view.
C1_AtMostOnePanelPerDocument ==
  /\ \A k \in ViewKeys : Cardinality(LivePanels(k)) <= 1
  /\ (last.op = "render" /\ last.created = NoPanel)
       => /\ last.revealed \in LivePanels(RenderedKey)
          /\ currentView = last.revealed

\* a second render for a document has just revealed its live panel
C1_Witness ==
  /\ last.op = "render"
  /\ last.created = NoPanel
  /\ last.revealed = 1
  /\ panels[1].alive
  /\ Len(panels) = 1

\* C2: the registry never holds a disposed instance, and after a render the
\* registry entry of its document is a live instance, the current view; when the
\* document's earlier panel was disposed that instance is a new one.
C2_DisposedNeverReused ==
  /\ \A k \in ViewKeys : views[k] # NoPanel => panels[views[k]].alive
  /\ last.op = "render"
       => /\ views[RenderedKey] \in LivePanels(RenderedKey)
          /\ currentView = views[RenderedKey]
          /\ (DisposedPanels(RenderedKey) # {} /\ last.revealed = NoPanel)
               => /\ last.created = views[RenderedKey]
                  /\ \A q \in DisposedPanels(RenderedKey) : q < last.created

\* a render has just constructed the second instance for a document whose first
\* instance was disposed
C2_Witness ==
  /\ last.op = "render"
  /\ last.created = 2
  /\ views[RenderedKey] = 2
  /\ panels[2].alive
  /\ 1 \in DisposedPanels(RenderedKey)

\* the instance the step being taken disposes
DisposedNow == {p \in PanelIds : panels[p].alive /\ ~panels'[p].alive}

\* C15: disposing a panel while another panel is the active one and the
\* current view leaves SqlPreview.currentView and the context key
\* SqlPreviewActive as they were.
C15_DisposeOfInactiveKeepsCurrent ==
  [][\A p \in DisposedNow :
       (currentView # NoPanel /\ currentView # p /\ panels[currentView].active) =>
          /\ currentView' = currentView
          /\ ctxActive' = ctxActive]_vars

\* C7: a panel whose template failed to load (configure stopped before it set
\* the webview's html) is not in the registry and is not the current view.
C7_TemplateFailureAborts ==
  \A p \in PanelIds :
    ~panels[p].configured => views[KeyOf(p)] # p /\ currentView # p

\* C20: SqlPreview.currentView is undefined or an instance that is not disposed
\* and is the registry's entry of its document.
C20_CurrentViewIsRegistered ==
  currentView # NoPanel =>
    /\ panels[currentView].alive
    /\ views[KeyOf(currentView)] = currentView

\* the first panel was disposed and the second became the current view when
\* the host activated it
C20_Witness ==
  /\ last.op = "viewState"
  /\ currentView = 2
  /\ ~panels[1].alive
  /\ panels[2].active

---------------------------------------------------------------------------
(* Claims about the render cycle of one panel (specification SpecPanel) *)

\* the update messages posted by the last step
UpdatesPosted == {i \in 1..Len(last.out) : last.out[i].command = "update"}

\* C3: a render cycle whose source text compiles successfully and that runs to
\* its end on a panel that is not disposed posts one update message with status
\* 'ok', the SQL the compiler returned for that text and the HTML highlighted
\* from that SQL; the panel's last-good HTML is then that HTML and the
\* workspace-state key 'prql.sql' holds that SQL. A cycle whose highlighter
\* arrives on a live panel always runs to its end.
C3_OkCycleMirrorsCompiler ==
  /\ \A i \in UpdatesPosted :
       LET m == last.out[i]
           sqlCode == compile(m.prqlCode)
       IN ~sqlCode.isArray =>
            /\ m.result.status = "ok"
            /\ m.result.sql = sqlCode.sql
            /\ \E theme \in {themeName(t) : t \in ColorThemes} :
                 m.result.sqlHtml = codeToHtml(theme, sqlCode.sql)
            /\ panels[m.to].lastSqlHtml = m.result.sqlHtml
            /\ wsSql = sqlCode.sql
  /\ (last.op = "cycleDone" /\ \A p \in PanelIds : panels[p].alive)
       => /\ Cardinality(UpdatesPosted) = 1
          /\ \A i \in UpdatesPosted : ~compile(last.out[i].prqlCode).isArray

\* a cycle that awaited the highlighter has completed for the text "from b"
C3_Witness ==
  /\ last.op = "cycleDone"
  /\ \E i \in UpdatesPosted :
       /\ last.out[i].prqlCode = "from b"
       /\ last.out[i].result.status = "ok"
       /\ wsSql = "SELECT * FROM b"
       /\ panels[1].lastSqlHtml = last.out[i].result.sqlHtml

\* the update messages posted by the step being taken
UpdatesPostedNext == {i \in 1..Len(last'.out) : last'.out[i].command = "update"}

\* the last-good HTML a panel holds when a cycle of the step being taken
\* starts: the active-editor handler resets it before it starts the cycle
LastGoodAtStart(p) ==
  IF last'.op = "activeEditor" THEN NoHtml
  ELSE IF p \in PanelIds THEN panels[p].lastSqlHtml
  ELSE NoHtml

\* C4: a render cycle whose source text fails to compile posts an update
\* message with status 'error' whose lastSqlHtml is the last-good HTML the panel
\* held when the cycle started, leaves the panel's last-good HTML at that value,
\* and leaves the workspace-state key 'prql.sql' absent.
C4_ErrorCycleKeepsLastGood ==
  [][\A i \in UpdatesPostedNext :
       LET m == last'.out[i]
       IN compile(m.prqlCode).isArray =>
            /\ m.result.status = "error"
            /\ m.result.lastSqlHtml = LastGoodAtStart(m.to)
            /\ panels'[m.to].lastSqlHtml = LastGoodAtStart(m.to)
            /\ wsSql' = Undefined]_vars

\* an error message has been posted that carries the HTML of an earlier
\* successful cycle, which the panel still holds
C4_Witness ==
  \E i \in UpdatesPosted :
    /\ last.out[i].result.status = "error"
    /\ last.out[i].result.lastSqlHtml # NoHtml
    /\ panels[1].lastSqlHtml = last.out[i].result.lastSqlHtml
    /\ wsSql = Undefined

\* the render cycles the step being taken starts: those it leaves awaiting the
\* highlighter and those it runs to their end
CyclesStarted == (Len(cycles') - Len(cycles)) + Cardinality(UpdatesPostedNext)

\* the text compiled by the cycles the step being taken starts
TextsCompiled ==
  {cycles'[i].prqlCode : i \in (Len(cycles) + 1)..Len(cycles')}
    \cup {last'.out[i].prqlCode : i \in UpdatesPostedNext}

\* update(context) compiles: the panel is visible and the active editor shows
\* the mirrored prql document
ShowsMirroredDocument(p) ==
  /\ panels[p].alive
  /\ panels[p].visible
  /\ activeEditor # NoPath
  /\ LanguageId(activeEditor) = "prql"
  /\ activeEditor = FsPath(panels[p].uri)

\* C5 as stated: the timeout that ends a burst of text-change notifications
\* starts exactly one render cycle, compiling the text of the document.
C5_BurstStartsOneCycle ==
  [][last'.op = "timerChange"
       => /\ CyclesStarted = 1
          /\ TextsCompiled = {docs[FsPath(UriA)]}]_vars

\* C5 amended: however many text-change notifications arrive before the
\* timeout expires, one timeout is pending after each of them, so the burst ends
\* in one call of update; that call starts exactly one render cycle, compiling
\* the text the active editor holds when the timeout expires, when the panel is
\* not disposed, is visible and the active editor shows the mirrored prql
\* document, and starts none otherwise.
C5_BurstEndsInOneUpdate ==
  [][/\ \A p \in PanelIds :
          (last'.op = "change" /\ panels[p].subs) => panels'[p].tChange = 1
     /\ \A p \in PanelIds :
          (last'.op = "timerChange" /\ panels[p].tChange > 0) =>
             /\ panels'[p].tChange = 0
             /\ IF ShowsMirroredDocument(p)
                THEN CyclesStarted = 1 /\ TextsCompiled = {docs[activeEditor]}
                ELSE CyclesStarted = 0]_vars

\* the timeout has expired after a burst and started the one cycle, for the
\* text of the last change
C5_Witness ==
  /\ last.op = "timerChange"
  /\ panels[1].tChange = 0
  /\ docs[FsPath(UriA)] = "from b"
  /\ \E i \in 1..Len(cycles) : cycles[i].prqlCode = "from b"

\* C6: once the panel is disposed no step posts a message to its webview or
\* changes the context keys or the workspace-state key 'prql.sql'; the steps
\* include the expiry of a debounce timeout that was pending and the arrival of
\* the highlighter of a render cycle that was in flight when it was disposed.
C6_NothingAfterDispose ==
  [][\A p \in PanelIds :
       ~panels[p].alive =>
          /\ \A i \in 1..Len(last'.out) : last'.out[i].to # p
          /\ UNCHANGED <<ctxActive, ctxLastDoc, wsSql>>]_vars

\* the highlighter of a cycle has arrived after the panel was disposed, and a
\* debounce timeout is still pending
C6_Witness ==
  /\ last.op = "cycleDone"
  /\ ~panels[1].alive
  /\ panels[1].lastSqlHtml # NoHtml
  /\ panels[1].tChange > 0

\* C8: when the webview sends {command: 'refresh'} the panel re-runs its render
\* cycle: the step starts a cycle or posts an update message. (The refresh
\* handler answers with a 'refresh' message, which marks the step.)
C8_RefreshRerunsCycle ==
  [][(last'.op = "message" /\ last'.out # <<>>)
       => (CyclesStarted >= 1 /\ TextsCompiled # {})]_vars

\* C9: while the panel is subscribed to theme changes, its cached highlighter
\* and its last-good HTML are never those of a theme other than the current
\* one, and a theme change posts exactly one changeTheme message.
C9_ThemeChangeInvalidates ==
  /\ \A p \in PanelIds : panels[p].subs =>
       /\ panels[p].highlighter \in {NoTheme, themeName(colorTheme)}
       /\ panels[p].lastSqlHtml # NoHtml =>
            panels[p].lastSqlHtml[1] = themeName(colorTheme)
  /\ last.op = "theme" =>
       \A p \in PanelIds : panels[p].subs =>
          Cardinality({i \in 1..Len(last.out) :
             last.out[i].to = p /\ last.out[i].command = "changeTheme"}) = 1

---------------------------------------------------------------------------
(* Claims about compilePrql (specification SpecCompile) *)

\* C10: when the compiler returns a list of diagnostics, the message of the
\* error result is the first diagnostic's display when that is neither
\* undefined nor null, and the first diagnostic's reason otherwise, whatever
\* the later diagnostics are.
C10_MessageFromFirstDiagnostic ==
  (compilePrqlResult # NoResult /\ compilerOutput.isArray) =>
     LET first == compilerOutput.diags[1]
     IN /\ compilePrqlResult.status = "error"
        /\ compilePrqlResult.message =
             (IF first.display \notin {Undefined, Null} THEN first.display
              ELSE first.reason)

\* an error result built from two diagnostics, the first without a display,
\* the second with one
C10_Witness ==
  /\ compilePrqlResult # NoResult
  /\ compilerOutput.isArray
  /\ Len(compilerOutput.diags) = 2
  /\ compilerOutput.diags[1].display = Undefined
  /\ compilerOutput.diags[2].display = "Error: D2"
  /\ compilePrqlResult.message = compilerOutput.diags[1].reason

\* C16: a panel has one debounce slot for all its triggers: at most one
\* timeout is pending per panel.
C16_SingleDebounceSlot ==
  \A p \in PanelIds : panels[p].tOpen + panels[p].tChange <= 1

\* C12: when a render cycle has completed (its update message is posted), the
\* context key SqlPreviewActive equals whether the panel is visible and active,
\* whatever the status of the result.
C12_ActiveFlagFollowsViewState ==
  \A i \in UpdatesPosted :
    ctxActive = (panels[last.out[i].to].visible /\ panels[last.out[i].to].active)

\* C13: the update messages of a panel's render cycles are posted in the order
\* in which the cycles were started: a cycle that waited for the highlighter
\* posts when it is the oldest one in flight, and a cycle that runs to its end
\* in the step that starts it posts only when none is in flight.
C13_UpdatesInStartOrder ==
  [][UpdatesPostedNext # {} =>
       IF last'.op = "cycleDone" THEN cycles' = Tail(cycles) ELSE cycles = <<>>]_vars

\* the step being taken ends a successful cycle of panel p, which stores the
\* cycle's HTML as last-good
SuccessfulCycleSets(p) ==
  \/ \E i \in UpdatesPostedNext :
       /\ last'.out[i].to = p
       /\ last'.out[i].result.status = "ok"
       /\ panels'[p].lastSqlHtml = last'.out[i].result.sqlHtml
  \/ /\ last'.op = "cycleDone"
     /\ \E i \in 1..Len(cycles) :
          /\ cycles[i].panel = p
          /\ panels'[p].lastSqlHtml =
               codeToHtml(cycles[i].theme, compile(cycles[i].prqlCode).sql)

\* the error messages posted by the step being taken to panels that existed
ErrorsPostedNext ==
  {i \in UpdatesPostedNext :
     last'.out[i].result.status = "error" /\ last'.out[i].to \in PanelIds}

\* C18 as stated: only a successful cycle or a theme change alters the
\* last-good HTML, and an error message carries the last-good HTML the panel
\* held before the step.
C18_OnlyCompileOrThemeAlters ==
  [][/\ \A p \in PanelIds :
          panels'[p].lastSqlHtml # panels[p].lastSqlHtml =>
             (last'.op = "theme" \/ SuccessfulCycleSets(p))
     /\ \A i \in ErrorsPostedNext :
          last'.out[i].result.lastSqlHtml = panels[last'.out[i].to].lastSqlHtml]_vars

\* C18 amended: the last-good HTML is altered only by a successful cycle, which
\* sets it to the cycle's HTML, by a theme change, which resets it to absent,
\* and by a switch of the active editor to the mirrored document, which resets
\* it to absent before it starts a cycle; an error message carries the
\* last-good HTML held when its cycle started.
C18_LastGoodAlteredOnlyBy ==
  [][/\ \A p \in PanelIds :
          panels'[p].lastSqlHtml # panels[p].lastSqlHtml =>
             \/ last'.op = "theme" /\ panels'[p].lastSqlHtml = NoHtml
             \/ /\ last'.op = "activeEditor"
                /\ activeEditor' = FsPath(panels[p].uri)
                /\ panels'[p].lastSqlHtml = NoHtml
             \/ SuccessfulCycleSets(p)
     /\ \A i \in ErrorsPostedNext :
          last'.out[i].result.lastSqlHtml = LastGoodAtStart(last'.out[i].to)]_vars

\* the active editor has switched to the mirrored document after a successful
\* cycle (the highlighter is cached): the last-good HTML is gone and the error
\* message of the new cycle carries none
C18_Witness ==
  /\ last.op = "activeEditor"
  /\ panels # <<>>
  /\ panels[1].highlighter # NoTheme
  /\ panels[1].lastSqlHtml = NoHtml
  /\ \E i \in UpdatesPosted :
       /\ last.out[i].result.status = "error"
       /\ last.out[i].result.lastSqlHtml = NoHtml

\* the step being taken ends configure() of the live panel p: render, when
\* configure does not wait for the file, or the arrival of the file
ConfigureEnds(p) ==
  /\ panels'[p].alive
  /\ \/ last'.op = "render" /\ last'.created = p /\ ~panels'[p].loading
     \/ last'.op = "configured"

\* C19: creating a panel of a document that is open or stored posts one
\* 'refresh' message and runs exactly one render cycle, which compiles the
\* document's editor text when it is open and the stored text otherwise.
C19_CreationRunsOneCycle ==
  [][\A p \in 1..Len(panels') :
       LET f == FsPath(panels'[p].uri)
       IN (ConfigureEnds(p) /\ (docs[f] # Closed \/ disk[f] # Absent)) =>
            /\ Cardinality({i \in 1..Len(last'.out) :
                  last'.out[i].command = "refresh"}) = 1
            /\ CyclesStarted = 1
            /\ TextsCompiled = {IF docs[f] # Closed THEN docs[f] ELSE disk[f]}]_vars

---------------------------------------------------------------------------
(* Claims about overlapping cycles and about the notifications of another  *)
(* document (specification SpecOther)                                      *)

\* C14: between the creation of the panel and the first theme change the
\* highlighter is requested at most once: a step asks shiki.getHighlighter for
\* one only when no earlier request is outstanding.
C14_HighlighterCreatedOnce ==
  [][Len(cycles') > Len(cycles) => cycles = <<>>]_vars

\* C17: the text-change and open notifications of a document the panel does not
\* mirror, and the timeouts they arm, start no cycle, post no message and leave
\* the panel's last-good HTML, the context key SqlPreviewActive and the
\* workspace-state key 'prql.sql' as they were.
C17_OtherDocumentChangesNothing ==
  [][last'.op \in {"open", "change", "timerOpen", "timerChange"} =>
       /\ CyclesStarted = 0
       /\ last'.out = <<>>
       /\ UNCHANGED <<ctxActive, wsSql>>
       /\ \A p \in PanelIds : panels'[p].lastSqlHtml = panels[p].lastSqlHtml]_vars

---------------------------------------------------------------------------
(* Claims about themeName (specification SpecTheme) *)

\* the subsequence of s at the positions in idx, in order
Pick(s, idx) ==
  [j \in 1..Cardinality(idx) |->
     s[CHOOSE i \in idx : Cardinality({m \in idx : m <= i}) = j]]

\* the normalized form as the claim words it: lowercased, the (first)
\* substring 'theme' removed, every run of whitespace replaced by one hyphen
NormalizedForm(s) ==
  LET upper == <<"A", "L", "M", "N", "T">>
      lower == <<"a", "l", "m", "n", "t">>
      low == [i \in 1..Len(s) |->
                IF \E k \in 1..5 : upper[k] = s[i]
                THEN lower[CHOOSE k \in 1..5 : upper[k] = s[i]] ELSE s[i]]
      at == {i \in 1..(Len(low) - 4) : SubSeq(low, i, i + 4) = <<"t", "h", "e", "m", "e">>}
      cut == IF at = {} THEN {}
             ELSE LET i == CHOOSE h \in at : \A g \in at : h <= g IN i..(i + 4)
      rest == Pick(low, (1..Len(low)) \ cut)
      kept == {i \in 1..Len(rest) : rest[i] # " " \/ i = 1 \/ rest[i - 1] # " "}
  IN Pick([i \in 1..Len(rest) |-> IF rest[i] = " " THEN "-" ELSE rest[i]], kept)

\* the theme the highlighter of a result was built for
ResultTheme == compilePrqlResult.sqlHtml[1]

\* C11: the theme name resolved for a configured name is the first bundled one
\* of: the configured name, its normalized form, 'css-variables'; so it is
\* always a bundled theme or 'css-variables'.
C11_FirstBundledCandidate ==
  compilePrqlResult # NoResult =>
    /\ ResultTheme =
         (IF colorTheme \in BUNDLED_THEMES THEN colorTheme
          ELSE IF NormalizedForm(colorTheme) \in BUNDLED_THEMES
               THEN NormalizedForm(colorTheme)
          ELSE CssVariables)
    /\ ResultTheme \in BUNDLED_THEMES \cup {CssVariables}

\* a configured name that is not bundled and whose normalized form is
C11_Witness ==
  /\ compilePrqlResult # NoResult
  /\ colorTheme = ConfigMinLight
  /\ ResultTheme = MinLight

====
